---- MODULE Spec2Model ----
(***************************************************************************)
(* A model of SudokuMineSolver (src/proj2.py): the CSP state built by the  *)
(* constructor, the four constraint checkers, the MRV + degree variable    *)
(* ordering, forward checking with its removal record, and the recursive   *)
(* backtracking search, run here as an explicit stack of call frames.      *)
(***************************************************************************)
EXTENDS Integers, Sequences, FiniteSets, TLC

VARIABLES
    grid,             \* self.grid: the rows read by read_input
    variables,        \* self.variables: list of blank cells, row-major
    domains,          \* self.domains: cell -> subset of {0,1}
    solution,         \* self.solution: cell -> 0/1
    nodes_generated,  \* self.nodes_generated
    goal_depth,       \* self.goal_depth
    assignment,       \* the dict passed down the recursion of backtrack
    stack,            \* the active frames of backtrack, root first
    depth,            \* the depth argument of the invocation being entered
    retval,           \* what the invocation that just returned has returned
    result,           \* what solve() returned
    pc,               \* where the program is
    inst,             \* which solver object is live (1 or 2)
    first,            \* the outcome of the first solve() of the grid
    solves,           \* how many times solve() was called on the live object
    tried,            \* history: the <<assignment, var, value>> tested in this solve()
    steps,            \* history: number of steps the live object has taken
    calls,            \* history: number of invocations of backtrack
    lastDepth,        \* history: depth argument of the latest invocation
    lastOp            \* history: the step taken last

vars == <<grid, variables, domains, solution, nodes_generated, goal_depth,
          assignment, stack, depth, retval, result, pc, inst, first, solves,
          tried, steps, calls, lastDepth, lastOp>>

-----------------------------------------------------------------------------
(* Program constants *)

\* range(9): the side of the grid
GridSize == 9
\* row // 3, col // 3: the side of a block
BlockSize == 3
\* "exactly 3 mines" of every row, column and block
RequiredMines == 3

Idx == 0 .. (GridSize - 1)
Cells == Idx \X Idx
\* for value in [0, 1]
ValueOrder == <<0, 1>>
\* the "return None" of backtrack and forward_check
None == "None"
\* the empty dict {}
EmptyDict == [v \in {} |-> 0]

-----------------------------------------------------------------------------
(* Bounds of the model *)

\* at most this many blank cells are added to the planted mine cells
MaxExtra == 2

-----------------------------------------------------------------------------
(* Grid Model *)

\* the cells adjacent to (row, col), clipped to the grid
get_neighbors(row, col) ==
    {<<row + dr, col + dc>> : dr \in {-1, 0, 1}, dc \in {-1, 0, 1}}
        \cap (Cells \ {<<row, col>>})

\* get_neighbors of every cell, computed once
Neighbors == [cell \in Cells |-> get_neighbors(cell[1], cell[2])]

get_block(row, col) == (row \div BlockSize) * BlockSize + (col \div BlockSize)

\* self.grid[r][c]
GridAt(cell) == grid[cell[1] + 1][cell[2] + 1]

\* v in self.variables; the list and the keys of self.domains are filled
\* together by initialize_csp and never change afterwards
InVariables(v) == v \in DOMAIN domains

\* v in assignment
Bound(v, asg) == v \in DOMAIN asg

\* the sum of asg[v] over the bound cells of S (dict values are 0 or 1)
Mines(S, asg) == Cardinality({v \in S : Bound(v, asg) /\ asg[v] = 1})

\* temp = assignment.copy(); temp[var] = value
Bind(asg, var, value) ==
    [v \in (DOMAIN asg) \cup {var} |-> IF v = var THEN value ELSE asg[v]]

\* a binding that is never deleted
Unbind_keep(asg, var) == asg

\* del assignment[var]
Unbind(asg, var) == [v \in (DOMAIN asg) \ {var} |-> asg[v]]

RowCells(row) == {<<row, c>> : c \in Idx}
ColCells(col) == {<<r, col>> : r \in Idx}
BlockCells(row, col) ==
    LET br == (row \div BlockSize) * BlockSize
        bc == (col \div BlockSize) * BlockSize
    IN  {<<r, c>> : r \in br .. (br + BlockSize - 1), c \in bc .. (bc + BlockSize - 1)}

-----------------------------------------------------------------------------
(* Constraint Checkers *)

\* a row check that gives up once the row holds 3 mines
check_row_constraint_full(row, asg) ==
    LET mines == Mines({v \in RowCells(row) : InVariables(v)}, asg)
        unassigned == Cardinality({v \in RowCells(row) : InVariables(v) /\ ~Bound(v, asg)})
    IN  IF mines >= RequiredMines THEN FALSE
        ELSE IF unassigned = 0 /\ mines # RequiredMines THEN FALSE
        ELSE IF mines + unassigned < RequiredMines THEN FALSE
        ELSE TRUE

check_row_constraint(row, asg) ==
    LET mines == Mines({v \in RowCells(row) : InVariables(v)}, asg)
        unassigned == Cardinality({v \in RowCells(row) : InVariables(v) /\ ~Bound(v, asg)})
    IN  IF mines > RequiredMines THEN FALSE
        ELSE IF unassigned = 0 /\ mines # RequiredMines THEN FALSE
        ELSE IF mines + unassigned < RequiredMines THEN FALSE
        ELSE TRUE

check_col_constraint(col, asg) ==
    LET mines == Mines(ColCells(col), asg)
        assigned_cells == Cardinality({v \in ColCells(col) : Bound(v, asg)})
    IN  IF mines > RequiredMines THEN FALSE
        ELSE IF assigned_cells = Cardinality({v \in ColCells(col) : InVariables(v)})
                /\ mines # RequiredMines THEN FALSE
        ELSE TRUE

check_block_constraint(row, col, asg) ==
    LET mines == Mines({v \in BlockCells(row, col) : InVariables(v)}, asg)
        unknown == Cardinality({v \in BlockCells(row, col) : InVariables(v) /\ ~Bound(v, asg)})
    IN  mines <= RequiredMines /\ mines + unknown >= RequiredMines
        /\ (unknown > 0 \/ mines = RequiredMines)

check_numbered_constraints(var, value, asg) ==
    \A cell \in Cells :
        LET required == GridAt(cell)
        IN  \/ required <= 0
            \/ LET mines == Mines(Neighbors[cell], asg)
                   unknown == Cardinality({n \in Neighbors[cell] :
                                             ~Bound(n, asg) /\ InVariables(n)})
               IN  /\ ~(mines > required)
                   /\ ~(unknown = 0 /\ mines # required)

is_consistent(var, value, asg) ==
    LET temp_assignment == Bind(asg, var, value)
    IN  /\ check_row_constraint(var[1], temp_assignment)
        /\ check_col_constraint(var[2], temp_assignment)
        /\ check_block_constraint(var[1], var[2], temp_assignment)
        /\ check_numbered_constraints(var, value, temp_assignment)

-----------------------------------------------------------------------------
(* Variable Ordering Heuristic *)

count_constraints(var, asg) ==
    LET Open(v) == InVariables(v) /\ ~Bound(v, asg) /\ v # var
        rowN == {v \in RowCells(var[1]) : Open(v)}
        colN == {v \in ColCells(var[2]) : Open(v)}
        blockN == {v \in BlockCells(var[1], var[2]) : Open(v)}
        clueN == UNION {{v \in Neighbors[cell] : Open(v)} :
                          cell \in {k \in Cells : GridAt(k) > 0 /\ var \in Neighbors[k]}}
    IN  Cardinality(rowN \cup colN \cup blockN \cup clueN)

\* a tie-break that takes the first variable of the list
BestVar_first(mrv_vars, i, asg, best_var, max_degree) == mrv_vars[1]

\* the "for v in mrv_vars" loop: the first variable of the list whose degree
\* is strictly above every degree seen before it
RECURSIVE BestVar(_, _, _, _, _)
BestVar(mrv_vars, i, asg, best_var, max_degree) ==
    IF i > Len(mrv_vars) THEN best_var
    ELSE LET degree == count_constraints(mrv_vars[i], asg)
         IN  IF degree > max_degree
             THEN BestVar(mrv_vars, i + 1, asg, mrv_vars[i], degree)
             ELSE BestVar(mrv_vars, i + 1, asg, best_var, max_degree)

\* min(len(self.domains[v]) for v in unassigned)
MinDomainSize(unassigned, doms) ==
    CHOOSE n \in 0 .. Len(ValueOrder) :
        /\ \E i \in 1 .. Len(unassigned) : Cardinality(doms[unassigned[i]]) = n
        /\ \A i \in 1 .. Len(unassigned) : Cardinality(doms[unassigned[i]]) >= n

select_unassigned_variable(asg, doms) ==
    LET unassigned == SelectSeq(variables, LAMBDA v : ~Bound(v, asg))
    IN  IF Len(unassigned) = 0 THEN None
        ELSE LET min_domain_size == MinDomainSize(unassigned, doms)
                 mrv_vars == SelectSeq(unassigned,
                                LAMBDA v : Cardinality(doms[v]) = min_domain_size)
             IN  IF Len(mrv_vars) = 1 THEN mrv_vars[1]
                 ELSE BestVar(mrv_vars, 1, asg, None, -1)

-----------------------------------------------------------------------------
(* CSP State and Propagator *)

\* a restore that assigns the removed values instead of adding them
restore_domains_assign(doms, removed) ==
    [v \in DOMAIN doms |-> IF v \in DOMAIN removed THEN removed[v] ELSE doms[v]]

\* for var, values in removed.items(): self.domains[var] |= values
restore_domains(doms, removed) ==
    [v \in DOMAIN doms |->
        IF v \in DOMAIN removed THEN doms[v] \cup removed[v] ELSE doms[v]]

\* a scan that, when some value fails, removes the value enumerated first
ToRemove_head(v, vals, temp) ==
    IF \E i \in 1 .. Len(vals) : ~is_consistent(v, vals[i], temp)
    THEN {vals[1]} ELSE {}

\* a scan that tests the value 0 only
ToRemove_zero(v, vals, temp) ==
    {vals[j] : j \in {i \in 1 .. Len(vals) : vals[i] = 0 /\ ~is_consistent(v, 0, temp)}}

\* the values of list(self.domains[v]) that fail is_consistent; vals is the
\* order in which the set is iterated
ToRemove(v, vals, temp) ==
    {vals[j] : j \in {i \in 1 .. Len(vals) : ~is_consistent(v, vals[i], temp)}}

\* a test for an emptied domain that never fires
Wipeout_never(dom) == FALSE

\* if not self.domains[v]: the domain has been emptied
Wipeout(dom) == dom = {}

\* the "for v in self.variables" loop of forward_check from index i on;
\* order is the iteration order of a set of values
RECURSIVE ForwardLoop(_, _, _, _, _, _)
ForwardLoop(i, asg, temp, doms, removed, order) ==
    IF i > Len(variables) THEN [ok |-> TRUE, removed |-> removed, domains |-> doms]
    ELSE LET v == variables[i]
         IN  IF Bound(v, asg)
             THEN ForwardLoop(i + 1, asg, temp, doms, removed, order)
             ELSE LET vals == SelectSeq(order, LAMBDA x : x \in doms[v])
                      to_remove == ToRemove(v, vals, temp)
                  IN  IF to_remove # {}
                      THEN LET removed2 == Bind(removed, v, to_remove)
                               doms2 == [doms EXCEPT ![v] = @ \ to_remove]
                           IN  IF Wipeout(doms2[v])
                               THEN [ok |-> FALSE, removed |-> removed2,
                                     domains |-> restore_domains(doms2, removed2)]
                               ELSE ForwardLoop(i + 1, asg, temp, doms2, removed2, order)
                      ELSE ForwardLoop(i + 1, asg, temp, doms, removed, order)

\* forward_check(var, value, assignment) on the domains doms: whether it
\* returned a removal record (ok) or None, the record, and the domains it leaves
forward_check(var, value, asg, doms, order) ==
    ForwardLoop(1, asg, Bind(asg, var, value), doms, EmptyDict, order)

-----------------------------------------------------------------------------
(* Input grids *)

\* a mine placement with 3 mines in every row, column and block
PlantedMines ==
    {cell \in Cells :
        cell[2] % BlockSize = (cell[1] + (cell[1] \div BlockSize)) % BlockSize}

\* cells that may be left blank besides the planted mines
ExtraCells == {<<2, 1>>, <<1, 6>>, <<4, 4>>}

\* a clue that may be printed off by one: <<cell, delta>>
Misprints == {<<>>, <<<<6, 1>>, 1>>, <<<<1, 0>>, -1>>, <<<<3, 0>>, 1>>}

\* the puzzle of the planted mines: every cell outside the mines and the
\* extra blanks shows the number of mines around it
MakeGrid(extra, misprint) ==
    [r \in 1 .. GridSize |-> [c \in 1 .. GridSize |->
        LET cell == <<r - 1, c - 1>>
            count == Cardinality(Neighbors[cell] \cap PlantedMines)
        IN  IF cell \in PlantedMines \cup extra THEN 0
            ELSE IF misprint # <<>> /\ misprint[1] = cell THEN count + misprint[2]
            ELSE count]]

PuzzleGrids ==
    {MakeGrid(extra, misprint) :
        extra \in {e \in SUBSET ExtraCells : Cardinality(e) <= MaxExtra},
        misprint \in Misprints}

\* a grid without a blank cell
AllClues == [r \in 1 .. GridSize |-> [c \in 1 .. GridSize |-> 1]]
\* a grid holding a value above 8
OutOfRange == [AllClues EXCEPT ![1][1] = 9]
\* grids of 8 and of 10 rows
ShortGrid == SubSeq(AllClues, 1, GridSize - 1)
LongGrid == Append(AllClues, AllClues[1])

InputGrids == PuzzleGrids \cup {AllClues, OutOfRange, ShortGrid, LongGrid}

\* 9 rows of 9 values, each in [0,8]
ValidGrid(g) ==
    /\ Len(g) = GridSize
    /\ \A r \in 1 .. Len(g) :
          Len(g[r]) = GridSize /\ \A c \in 1 .. Len(g[r]) : g[r][c] \in 0 .. 8

-----------------------------------------------------------------------------
(* The program *)

\* the orders in which list(self.domains[v]) may enumerate a set of values:
\* the language leaves the order of a set open
SetOrders == {<<0, 1>>, <<1, 0>>}
\* the order in which CPython enumerates a set of small integers
HashOrder == <<0, 1>>

\* the fields as __init__ sets them before it reads the file
Fresh ==
    /\ variables = <<>>
    /\ domains = EmptyDict
    /\ solution = [cell \in Cells |-> 0]
    /\ nodes_generated = 0
    /\ goal_depth = 0
    /\ assignment = EmptyDict
    /\ stack = <<>>
    /\ depth = 0
    /\ retval = None
    /\ result = None
    /\ pc = "new"
    /\ solves = 0
    /\ tried = {}
    /\ steps = 0
    /\ calls = 0
    /\ lastDepth = 0

Init ==
    /\ grid \in InputGrids
    /\ Fresh
    /\ inst = 1
    /\ first = None
    /\ lastOp = "init"

\* the cells in the order of "for r in range(9): for c in range(9)"
RowMajor == [i \in 1 .. GridSize * GridSize |->
                <<(i - 1) \div GridSize, (i - 1) % GridSize>>]

\* self.grid[r][c] does not raise IndexError
Readable(cell) ==
    cell[1] + 1 <= Len(grid) /\ cell[2] + 1 <= Len(grid[cell[1] + 1])

\* the cells initialize_csp reads before it stops
Scanned ==
    LET bad == {i \in DOMAIN RowMajor : ~Readable(RowMajor[i])}
        stop == IF bad = {} THEN Len(RowMajor) + 1
                ELSE CHOOSE i \in bad : \A j \in bad : i <= j
    IN  SubSeq(RowMajor, 1, stop - 1)

initialize_csp ==
    /\ pc = "new"
    /\ steps' = steps + 1
    /\ variables' = SelectSeq(Scanned, LAMBDA cell : GridAt(cell) = 0)
    /\ domains' = [v \in {Scanned[i] : i \in {j \in DOMAIN Scanned : GridAt(Scanned[j]) = 0}}
                     |-> {0, 1}]
    /\ pc' = IF Len(Scanned) = Len(RowMajor) THEN "ready" ELSE "IndexError"
    /\ lastOp' = "initialize_csp"
    /\ UNCHANGED <<grid, solution, nodes_generated, goal_depth, assignment, stack,
                   depth, retval, result, inst, first, solves, tried, calls,
                   lastDepth>>

\* solve(): the call backtrack({}, 0)
solve ==
    /\ pc = "ready"
    /\ steps' = steps + 1
    /\ assignment' = EmptyDict
    /\ depth' = 0
    /\ pc' = "call"
    /\ solves' = solves + 1
    /\ tried' = {}
    /\ lastOp' = "solve"
    /\ UNCHANGED <<grid, variables, domains, solution, nodes_generated, goal_depth,
                   stack, retval, result, inst, first, calls, lastDepth>>

\* a count taken after the test for a complete assignment
CountNode_late(n, complete) == IF complete THEN n ELSE n + 1

\* a goal depth recorded by every invocation
RecordGoalDepth_always(old, complete, d) == d

\* a recursive call that passes its own depth on
ChildDepth_same(d) == d

\* a recursive call that passes depth + 2
ChildDepth_skip(d) == d + 2

\* self.nodes_generated += 1, the first statement of backtrack; complete
\* tells whether this invocation finds the assignment complete
CountNode(n, complete) == n + 1

\* if len(assignment) == len(self.variables): self.goal_depth = depth
RecordGoalDepth(old, complete, d) == IF complete THEN d ELSE old

\* the depth argument of the recursive call: depth + 1
ChildDepth(d) == d + 1

\* a solution written with row and column swapped
WriteSolution_swapped(sol, asg) ==
    [cell \in Cells |->
        IF Bound(<<cell[2], cell[1]>>, asg) THEN asg[<<cell[2], cell[1]>>] ELSE sol[cell]]

\* for (r, c), value in assignment.items(): self.solution[r][c] = value
WriteSolution(sol, asg) ==
    [cell \in Cells |-> IF Bound(cell, asg) THEN asg[cell] ELSE sol[cell]]

\* a removal record taken for a truth value: "if removed:"
IsRecord_truthy(fc) == fc.ok /\ fc.removed # EmptyDict

\* if removed is not None: forward_check returned a record, empty or not
IsRecord(fc) == fc.ok

\* a loop that tries the same value again
NextValue_same(i) == i

\* "for value in [0, 1]" moves on to the next value
NextValue(i) == i + 1

Top == stack[Len(stack)]
SetTop(frame) == [stack EXCEPT ![Len(stack)] = frame]
Pop == SubSeq(stack, 1, Len(stack) - 1)

\* backtrack(assignment, depth) up to the loop over the values
backtrack ==
    /\ pc = "call"
    /\ steps' = steps + 1
    /\ nodes_generated' =
           CountNode(nodes_generated, Cardinality(DOMAIN assignment) = Len(variables))
    /\ calls' = calls + 1
    /\ lastDepth' = depth
    /\ goal_depth' =
           RecordGoalDepth(goal_depth, Cardinality(DOMAIN assignment) = Len(variables), depth)
    /\ IF Cardinality(DOMAIN assignment) = Len(variables)
       THEN /\ retval' = "assignment"
            /\ pc' = "return"
            /\ lastOp' = "goal"
            /\ UNCHANGED stack
       ELSE /\ stack' = Append(stack,
                         [var |-> select_unassigned_variable(assignment, domains),
                          depth |-> depth, vi |-> 1, removed |-> EmptyDict,
                          saved |-> domains,
                          entry |-> [assignment |-> assignment, domains |-> domains]])
            /\ pc' = "loop"
            /\ lastOp' = "select"
            /\ UNCHANGED retval
    /\ UNCHANGED <<grid, variables, domains, solution, assignment, depth, result,
                   inst, first, solves, tried>>

\* one round of "for value in [0, 1]" in the newest frame; orders are the
\* iteration orders of a set the run may meet
backtrack_value(orders) ==
    /\ pc = "loop"
    /\ steps' = steps + 1
    /\ Top.vi <= Len(ValueOrder)
    /\ \E order \in orders :
        LET var == Top.var
            value == ValueOrder[Top.vi]
            next == [Top EXCEPT !.vi = NextValue(@)]
        IN  IF value \notin domains[var]
            THEN /\ stack' = SetTop(next)
                 /\ lastOp' = "skip"
                 /\ UNCHANGED <<domains, assignment, depth, pc, tried>>
            ELSE IF ~is_consistent(var, value, assignment)
            THEN /\ stack' = SetTop(next)
                 /\ tried' = tried \cup {<<assignment, var, value>>}
                 /\ lastOp' = "reject"
                 /\ UNCHANGED <<domains, assignment, depth, pc>>
            ELSE LET bound == Bind(assignment, var, value)
                     fc == forward_check(var, value, bound, domains, order)
                 IN  /\ tried' = tried \cup {<<assignment, var, value>>}
                     /\ IF IsRecord(fc)
                        THEN /\ assignment' = bound
                             /\ domains' = fc.domains
                             /\ stack' = SetTop([Top EXCEPT !.removed = fc.removed,
                                                            !.saved = domains])
                             /\ depth' = ChildDepth(Top.depth)
                             /\ pc' = "call"
                             /\ lastOp' = "descend"
                        ELSE /\ domains' = fc.domains
                             /\ assignment' = Unbind(bound, var)
                             /\ stack' = SetTop(next)
                             /\ lastOp' = "wipeout"
                             /\ UNCHANGED <<depth, pc>>
    /\ UNCHANGED <<grid, variables, solution, nodes_generated, goal_depth, retval,
                   result, inst, first, solves, calls, lastDepth>>

\* the loop is over: return None
backtrack_fail ==
    /\ pc = "loop"
    /\ steps' = steps + 1
    /\ Top.vi > Len(ValueOrder)
    /\ stack' = Pop
    /\ retval' = None
    /\ pc' = "return"
    /\ lastOp' = "fail"
    /\ UNCHANGED <<grid, variables, domains, solution, nodes_generated, goal_depth,
                   assignment, depth, result, inst, first, solves, tried, calls,
                   lastDepth>>

\* the recursive call has returned into the newest frame
backtrack_resume ==
    /\ pc = "return"
    /\ steps' = steps + 1
    /\ stack # <<>>
    /\ IF retval # None
       THEN /\ stack' = Pop
            /\ lastOp' = "pass"
            /\ UNCHANGED <<domains, assignment, pc>>
       ELSE /\ domains' = restore_domains(domains, Top.removed)
            /\ assignment' = Unbind(assignment, Top.var)
            /\ stack' = SetTop([Top EXCEPT !.vi = NextValue(@)])
            /\ pc' = "loop"
            /\ lastOp' = "restore"
    /\ UNCHANGED <<grid, variables, solution, nodes_generated, goal_depth, depth,
                   retval, result, inst, first, solves, tried, calls, lastDepth>>

\* solve() after backtrack({}, 0) has returned
solve_return ==
    /\ pc = "return"
    /\ steps' = steps + 1
    /\ stack = <<>>
    /\ IF retval = None
       THEN /\ result' = FALSE
            /\ UNCHANGED solution
       ELSE /\ solution' = WriteSolution(solution, assignment)
            /\ result' = TRUE
    /\ pc' = "done"
    /\ lastOp' = "solve_return"
    /\ UNCHANGED <<grid, variables, domains, nodes_generated, goal_depth, assignment,
                   stack, depth, retval, inst, first, solves, tried, calls,
                   lastDepth>>

\* what a caller reads off a solver after solve()
Outcome ==
    [success |-> result, solution |-> solution, goal_depth |-> goal_depth,
     nodes_generated |-> nodes_generated]

\* a second solver object is constructed from the same input
second_solver ==
    /\ pc = "done"
    /\ inst = 1
    /\ first' = Outcome
    /\ inst' = 2
    /\ variables' = <<>>
    /\ domains' = EmptyDict
    /\ solution' = [cell \in Cells |-> 0]
    /\ nodes_generated' = 0
    /\ goal_depth' = 0
    /\ assignment' = EmptyDict
    /\ stack' = <<>>
    /\ depth' = 0
    /\ retval' = None
    /\ result' = None
    /\ pc' = "new"
    /\ solves' = 0
    /\ tried' = {}
    /\ steps' = 0
    /\ calls' = 0
    /\ lastDepth' = 0
    /\ lastOp' = "second_solver"
    /\ UNCHANGED grid

\* one solver object, constructed and solved once
Next ==
    \/ initialize_csp
    \/ solve
    \/ backtrack
    \/ backtrack_value({HashOrder})
    \/ backtrack_fail
    \/ backtrack_resume
    \/ solve_return

Spec == Init /\ [][Next]_vars

\* two solver objects constructed from the same grid, one after the other,
\* under every iteration order of a set
PairGrids == {MakeGrid({<<2, 1>>}, misprint) : misprint \in Misprints} \cup {AllClues}

InitPair == Init /\ grid \in PairGrids

NextPair ==
    \/ initialize_csp
    \/ solve
    \/ backtrack
    \/ backtrack_value(SetOrders)
    \/ backtrack_fail
    \/ backtrack_resume
    \/ solve_return
    \/ second_solver

SpecPair == InitPair /\ [][NextPair]_vars

\* the program has stopped: solve() has returned or the constructor has raised
Halted == pc \in {"done", "IndexError"}

\* a step of the program that has not stopped; every action of Next counts
\* one step, so these are the steps of Next
Step == ~Halted /\ steps' = steps + 1

\* the program is one thread that runs until solve() returns or an
\* exception ends it: a step that can be taken is taken
SpecLive == Spec /\ WF_steps(Step)

\* solve() is called once more on the solver object whose solve() has
\* returned: it calls backtrack({}, 0) and resets no field
solve_again ==
    /\ pc = "done"
    /\ steps' = steps + 1
    /\ solves = 1
    /\ first' = Outcome
    /\ assignment' = EmptyDict
    /\ depth' = 0
    /\ pc' = "call"
    /\ solves' = solves + 1
    /\ tried' = {}
    /\ lastOp' = "solve"
    /\ UNCHANGED <<grid, variables, domains, solution, nodes_generated, goal_depth,
                   stack, retval, result, inst, calls, lastDepth>>

\* one solver object whose solve() is called twice
NextAgain ==
    \/ initialize_csp
    \/ solve
    \/ backtrack
    \/ backtrack_value({HashOrder})
    \/ backtrack_fail
    \/ backtrack_resume
    \/ solve_return
    \/ solve_again

\* the puzzles among the grids of the pair
AgainGrids == {MakeGrid({<<2, 1>>}, misprint) : misprint \in Misprints}

InitAgain == Init /\ grid \in AgainGrids

SpecAgain == InitAgain /\ [][NextAgain]_vars

-----------------------------------------------------------------------------
(* What the claims speak of *)

\* solve() has returned True / False
Succeeded == pc = "done" /\ result = TRUE
Failed == pc = "done" /\ result = FALSE

\* the 9 rows, 9 columns and 9 blocks
Groups ==
    {RowCells(i) : i \in Idx} \cup {ColCells(i) : i \in Idx}
        \cup {BlockCells(BlockSize * i, BlockSize * j) :
                i \in 0 .. (GridSize \div BlockSize) - 1,
                j \in 0 .. (GridSize \div BlockSize) - 1}

\* the sum of the solution values over the variable cells of a group
GroupSum(S) == Cardinality({v \in S : InVariables(v) /\ solution[v] = 1})

\* the set M of mined blank cells meets every constraint of the puzzle
Satisfies(M) ==
    /\ \A S \in Groups : Cardinality(S \cap M) = RequiredMines
    /\ \A cell \in Cells :
          GridAt(cell) > 0 => Cardinality(Neighbors[cell] \cap M) = GridAt(cell)

\* some choice of 3 blank cells in each of the rows r .. 8, added to M,
\* meets every constraint
RECURSIVE SatFrom(_, _)
SatFrom(r, M) ==
    IF r = GridSize THEN Satisfies(M)
    ELSE \E T \in {U \in SUBSET {c \in Idx : GridAt(<<r, c>>) = 0} :
                      Cardinality(U) = RequiredMines} :
             SatFrom(r + 1, M \cup {<<r, c>> : c \in T})

\* some assignment of {0,1} to the blank cells meets every constraint (an
\* assignment is the set of its mined cells; it has 3 of them in each row)
Sat == SatFrom(0, {})

\* the search had to undo a binding
Backtracked == calls > Len(variables) + 1

-----------------------------------------------------------------------------
(* Claims *)

\* C1: for a grid of 9 x 9 values in [0,8], when solve() reports success
\* every row, column and block has solution values summing to exactly 3
\* over its variable cells.
C1_GroupSums ==
    (ValidGrid(grid) /\ Succeeded) => \A S \in Groups : GroupSum(S) = RequiredMines

\* C2: for a grid of 9 x 9 values in [0,8], when solve() reports success
\* every clue cell k > 0 has exactly k cells of solution value 1 among its
\* neighbours.
C2_ClueAccuracy ==
    (ValidGrid(grid) /\ Succeeded) =>
        \A cell \in Cells :
            GridAt(cell) > 0 =>
                Cardinality({n \in Neighbors[cell] : solution[n] = 1}) = GridAt(cell)

\* C3: the search is complete: when a satisfying assignment exists solve()
\* reports success, so it reports failure only when none exists.
C3_Complete == pc = "done" => (Sat => result = TRUE)

\* C3 witness: a satisfiable grid solved after the search had undone a binding
C3_Witness == Succeeded /\ Sat /\ Backtracked

\* C4: the solution grid holds 0 at every clue cell and 0 or 1 everywhere,
\* at every moment and so after solve() returns with either outcome.
C4_ClueCellsZero ==
    \A cell \in Cells :
        /\ solution[cell] \in {0, 1}
        /\ ~InVariables(cell) => solution[cell] = 0

\* C4 witness: solve() has written mines into a grid that has clue cells
C4_Witness ==
    /\ Succeeded
    /\ \E cell \in Cells : solution[cell] = 1
    /\ \E cell \in Cells : ~InVariables(cell)

\* C5: a forward_check that succeeds, followed by restore_domains on the
\* record it returned, leaves every domain as it was before the forward_check:
\* at once, and when the restore comes after the nested forward-check and
\* restore pairs of the search below.
C5_RoundTrip ==
    /\ lastOp = "descend" => restore_domains(domains, Top.removed) = Top.saved
    /\ lastOp = "restore" => domains = Top.saved

\* C5 witness: below the root, a restore has put back values that the
\* matching forward_check had removed
C5_Witness ==
    /\ lastOp = "restore"
    /\ Len(stack) >= 2
    /\ Top.removed # EmptyDict

\* C6: nodes_generated grows by exactly 1 on every invocation of backtrack and
\* changes on no other step; after solve() it is at least the number of
\* variables on success and at least 1 on failure.
C6_NodeCount ==
    /\ [][nodes_generated' =
            IF pc = "call" THEN nodes_generated + 1 ELSE nodes_generated]_vars
    /\ [](Succeeded => nodes_generated >= Len(variables))
    /\ [](Failed => nodes_generated >= 1)

\* C6 witness: the invocation that finds the assignment complete has been
\* counted on top of one invocation per variable
C6_Witness ==
    /\ lastOp = "goal"
    /\ Len(variables) > 0
    /\ nodes_generated > Len(variables)

\* C7: when solve() reports success, goal_depth is the number of bound
\* variables, which is the number of variables of the grid.
C7_GoalDepth ==
    Succeeded =>
        /\ goal_depth = Cardinality(DOMAIN assignment)
        /\ goal_depth = Len(variables)

\* C7 witness: a success on a grid with variables, reached after backtracking
C7_Witness == Succeeded /\ Len(variables) > 0 /\ Backtracked

\* C8: a second solver constructed from the same grid and solved once gives
\* the same (success, solution, goal_depth, nodes_generated) as the first,
\* whatever the order in which sets are enumerated.
C8_Deterministic == (inst = 2 /\ pc = "done") => Outcome = first

\* C8 witness: the second solver has succeeded after backtracking
C8_Witness == inst = 2 /\ Succeeded /\ Backtracked

\* C9: for a grid that does not have 9 rows of 9 values in [0,8],
\* construction fails before any search begins: the constructor never
\* returns a solver, solve() cannot run on the grid and no node is generated.
C9_InvalidGridRejected ==
    ~ValidGrid(grid) =>
        /\ pc \notin {"ready", "call", "loop", "return", "done"}
        /\ nodes_generated = 0

\* C10 as stated: when solve() reports failure, goal_depth is the depth of
\* the last node expanded by backtrack and nodes_generated is the number of
\* invocations of backtrack.
C10_FailureDepthIsLast ==
    Failed => (goal_depth = lastDepth /\ nodes_generated = calls)

\* C10 as amended: when solve() on a newly constructed solver reports
\* failure, goal_depth still holds its initial value 0 and nodes_generated is
\* the number of invocations of backtrack.
C10_FailureKeepsDepth ==
    Failed => (goal_depth = 0 /\ nodes_generated = calls)

\* C10 witness: a failure whose last expanded node lies below the root
C10_Witness == Failed /\ lastDepth > 0 /\ calls > 1

\* C11: a second solve() on the same solver object starts from the node
\* counter and the domains the first call started from (0, and {0,1} for every
\* variable), and returns the same (success, solution, goal_depth,
\* nodes_generated) as the first call.
C11_SecondSolveSame ==
    /\ (solves = 2 /\ pc = "call" /\ lastOp = "solve") =>
          /\ nodes_generated = 0
          /\ \A v \in DOMAIN domains : domains[v] = {0, 1}
    /\ (solves = 2 /\ pc = "done") => Outcome = first

\* the assignment handed to the checkers in this state: inside the loop over
\* the values, the copy is_consistent makes of the assignment with var bound
\* to the value under test
CheckerInputs ==
    IF pc = "loop" /\ Top.vi <= Len(ValueOrder)
    THEN {Bind(assignment, Top.var, ValueOrder[Top.vi])} ELSE {}

\* the three rules of the row checker on the variables of a group S of cells
RowRulesOn(S, asg) ==
    LET mines == Mines({v \in S : InVariables(v)}, asg)
        unassigned == Cardinality({v \in S : InVariables(v) /\ ~Bound(v, asg)})
    IN  /\ ~(mines > RequiredMines)
        /\ ~(unassigned = 0 /\ mines # RequiredMines)
        /\ ~(mines + unassigned < RequiredMines)

\* C12: the column checker gives, for every column and every partial
\* assignment, the result of the row checker's three rules (more than 3 mines;
\* all bound and not 3 mines; mines plus unbound variables below 3) applied to
\* the column, that is, of the row checker on the transposed grid.
C12_ColumnAsRow ==
    \A col \in Idx : \A asg \in CheckerInputs :
        /\ check_row_constraint(col, asg) = RowRulesOn(RowCells(col), asg)
        /\ check_col_constraint(col, asg) = RowRulesOn(ColCells(col), asg)

\* the three rules of the design on the clue cell: confirmed mines above the
\* clue, mines plus unbound neighbour variables below the clue, all neighbour
\* variables bound and the count not the clue
ClueUnsatisfiable(cell, asg) ==
    LET required == GridAt(cell)
        mines == Mines(Neighbors[cell], asg)
        unknown == Cardinality({n \in Neighbors[cell] : InVariables(n) /\ ~Bound(n, asg)})
    IN  \/ mines > required
        \/ mines + unknown < required
        \/ unknown = 0 /\ mines # required

\* C13: for every partial assignment the clue checker reports unsatisfiable
\* as soon as some clue cell has more confirmed mines than its value, or
\* cannot reach its value with its unbound neighbours, or has all neighbours
\* bound and a count that differs from its value.
C13_ClueRules ==
    pc \notin {"new", "IndexError"} =>
        \A asg \in CheckerInputs :
            (\E cell \in Cells : GridAt(cell) > 0 /\ ClueUnsatisfiable(cell, asg))
                => ~check_numbered_constraints(<<0, 0>>, 0, asg)

\* the variables not bound by asg
Unassigned(asg) == {v \in DOMAIN domains : ~Bound(v, asg)}

\* the number of distinct other unassigned variables in the row, the column
\* or the block of v, or next to a clue cell that v is next to
Degree(v, asg) ==
    Cardinality({u \in Unassigned(asg) \ {v} :
        \/ u[1] = v[1]
        \/ u[2] = v[2]
        \/ u[1] \div BlockSize = v[1] \div BlockSize
              /\ u[2] \div BlockSize = v[2] \div BlockSize
        \/ \E k \in Cells :
              GridAt(k) > 0 /\ v \in Neighbors[k] /\ u \in Neighbors[k]})

\* C14: select_unassigned_variable returns None when every variable is
\* assigned; otherwise it returns an unassigned variable of minimal domain
\* size and, among those, of maximal degree (distinct other unassigned
\* variables sharing its row, column, block or a neighbouring clue cell).
C14_SelectMRVDegree ==
    /\ lastOp = "goal" => select_unassigned_variable(assignment, domains) = None
    /\ lastOp = "select" =>
          /\ Unassigned(assignment) # {}
          /\ Top.var \in Unassigned(assignment)
          /\ \A u \in Unassigned(assignment) :
                /\ Cardinality(domains[Top.var]) <= Cardinality(domains[u])
                /\ Cardinality(domains[u]) = Cardinality(domains[Top.var])
                      => Degree(u, assignment) <= Degree(Top.var, assignment)

\* a selection where both orderings decide: a variable of a larger domain is
\* passed over, and so is one of the same domain size and smaller degree
C14_Witness ==
    /\ lastOp = "select"
    /\ \E u \in Unassigned(assignment) :
          Cardinality(domains[u]) > Cardinality(domains[Top.var])
    /\ \E u \in Unassigned(assignment) :
          /\ Cardinality(domains[u]) = Cardinality(domains[Top.var])
          /\ Degree(u, assignment) < Degree(Top.var, assignment)

\* the domains with every value of an unassigned variable that is not
\* consistent with temp taken out
Pruned(temp) ==
    [v \in DOMAIN domains |->
        IF Bound(v, temp) THEN domains[v]
        ELSE {val \in domains[v] : is_consistent(v, val, temp)}]

\* C15: forward_check returns None exactly when pruning empties the domain
\* of some unassigned variable, and then every domain is what it was before
\* the call; when nothing needs removing it returns an empty record, and the
\* search treats that record as success and recurses.
C15_ForwardCheckFailure ==
    [][(pc = "loop" /\ lastOp' \in {"descend", "wipeout"}) =>
          LET temp == Bind(assignment, Top.var, ValueOrder[Top.vi])
              emptied == \E v \in Unassigned(temp) :
                            domains[v] # {} /\ Pruned(temp)[v] = {}
          IN  /\ (lastOp' = "wipeout") <=> emptied
              /\ lastOp' = "wipeout" => domains' = domains /\ pc' = "loop"
              /\ lastOp' = "descend" => domains' = Pruned(temp) /\ pc' = "call"
              /\ (lastOp' = "descend" /\ Pruned(temp) = domains)
                    => stack'[Len(stack')].removed = EmptyDict]_vars

\* forward_check has returned an empty record and the search has recursed
C15_Witness ==
    /\ lastOp = "descend"
    /\ pc = "call"
    /\ Top.removed = EmptyDict

\* C16: an invocation of backtrack that returns None leaves the assignment
\* with exactly the bindings it had on entry and every domain as it was on
\* entry; after a solve() that fails the assignment is empty and every domain
\* is {0,1}.
C16_FailureRestores ==
    /\ (pc = "loop" /\ Top.vi > Len(ValueOrder)) =>
          /\ assignment = Top.entry.assignment
          /\ domains = Top.entry.domains
    /\ Failed =>
          /\ assignment = EmptyDict
          /\ \A v \in DOMAIN domains : domains[v] = {0, 1}

\* an invocation below the root is about to return None after a binding of
\* its own had pruned domains and was undone
C16_Witness ==
    /\ pc = "loop"
    /\ Top.vi > Len(ValueOrder)
    /\ Top.depth >= 1
    /\ Top.removed # EmptyDict
    /\ Top.entry.assignment # EmptyDict

\* C17: at the entry of every invocation of backtrack every unassigned
\* variable has a non-empty domain: the search does not recurse below a
\* binding whose propagation emptied a domain.
C17_NonEmptyDomains ==
    pc = "call" => \A v \in Unassigned(assignment) : domains[v] # {}

\* an invocation is entered below a binding whose propagation pruned a domain
\* to one value, after another binding had been given up
C17_Witness ==
    /\ pc = "call"
    /\ lastOp = "descend"
    /\ Top.removed # EmptyDict
    /\ \E v \in Unassigned(assignment) : Cardinality(domains[v]) = 1
    /\ calls > depth + 1

\* C18: at the entry of every invocation of backtrack the depth argument is
\* the number of bindings of the assignment, and it is at most the number of
\* variables, which is at most 81.
C18_DepthIsBindings ==
    pc = "call" =>
        /\ depth = Cardinality(DOMAIN assignment)
        /\ depth <= Len(variables)
        /\ Len(variables) <= GridSize * GridSize

\* an invocation is entered with every variable bound, after the search had
\* to undo a binding
C18_Witness ==
    /\ pc = "call"
    /\ Len(variables) > 0
    /\ depth = Len(variables)
    /\ Backtracked

\* C19: once solve() is called it returns, with success and a complete
\* assignment or with failure after the root has exhausted its values; and no
\* (variable, value) choice is tested twice under the same partial assignment.
C19_Terminates ==
    /\ (pc = "ready") ~> (pc = "done")
    /\ [](pc = "done" =>
            \/ result = TRUE /\ DOMAIN assignment = DOMAIN domains
            \/ result = FALSE /\ stack = <<>> /\ retval = None)
    /\ [][(pc = "loop" /\ lastOp' \in {"reject", "descend", "wipeout"}) =>
            <<assignment, Top.var, ValueOrder[Top.vi]>> \notin tried]_vars

\* a search that has returned after testing one (variable, value) choice
\* under two different partial assignments
C19_Witness ==
    /\ pc = "done"
    /\ Backtracked
    /\ \E t1 \in tried : \E t2 \in tried :
          t1[2] = t2[2] /\ t1[3] = t2[3] /\ t1[1] # t2[1]

\* C20: at the entry of every invocation of backtrack at depth >= 1, every
\* value left in the domain of an unassigned variable is consistent with the
\* assignment, so the consistency test backtrack makes before it binds a value
\* rejects a value only at the root.
C20_DomainsConsistent ==
    /\ (pc = "call" /\ depth >= 1) =>
          \A v \in Unassigned(assignment) : \A val \in domains[v] :
              is_consistent(v, val, assignment)
    /\ lastOp = "reject" => Top.depth = 0

\* an invocation below the root is entered with a variable that still has
\* both values, in a search whose root had a value rejected
C20_Witness ==
    /\ pc = "call"
    /\ depth >= 1
    /\ \E v \in Unassigned(assignment) : domains[v] = {0, 1}
    /\ \E t \in tried : t[1] = EmptyDict /\ ~is_consistent(t[2], t[3], t[1])

====
